---- MODULE Spec2Model ----
(***************************************************************************)
(* Model of the profitability dashboard's data engine (src/app.py):        *)
(* load_and_process_data, create_monthly_summary, create_cost_breakdown,   *)
(* calculate_margin and the totals computed in main.                       *)
(*                                                                         *)
(* Representation.                                                         *)
(*  - A spreadsheet cell is a record [t, v].  Money cells: t = "num" (a    *)
(*    number v), "blank" (an empty cell, NaN once read) or "text" (a       *)
(*    non-numeric string).  Date cells: t = "text" (v = <<y, m, d>> as     *)
(*    written in the sheet), "blank"; after pd.to_datetime: "ts" (a        *)
(*    Timestamp) or "nat" (NaT).                                           *)
(*  - Money is exact (integers); a float result of a division is a         *)
(*    record [kind, num, den]: a reduced fraction, or nan / inf / -inf as  *)
(*    numpy produces them for a zero divisor.                              *)
(*  - None is the empty tuple, a value x that may be None is <<x>>.        *)
(*  - pandas semantics are those of pandas >= 2.0 (the application is      *)
(*    dated 2025): a reduction over a column holding a string raises       *)
(*    TypeError, groupby drops the rows whose key is NaT/NaN, and          *)
(*    DataFrame.apply over an empty frame returns an empty column.         *)
(***************************************************************************)
EXTENDS Integers, Sequences, FiniteSets

VARIABLES uploaded_file, pc, df, error, monthly_df, cost_df, totals,
          raw_view, csv_raw, had_upload

vars == <<uploaded_file, pc, df, error, monthly_df, cost_df, totals,
          raw_view, csv_raw, had_upload>>

\* Largest number of data rows of an uploaded sheet.
MaxRows == 2

None == <<>>

Some(x) == <<x>>

-----------------------------------------------------------------------------
(* Columns *)

\* The only place the cost columns are listed: the pipeline loops over it.
cost_columns == <<"PU COST", "SHIP COST", "MAN COST", "DEL COST">>

CostColumnSet == {cost_columns[i] : i \in 1..Len(cost_columns)}

SheetColumns == {"ORD DT", "NET"} \cup CostColumnSet

-----------------------------------------------------------------------------
(* Cells *)

Num(n) == [t |-> "num", v |-> n]

BlankMoney == [t |-> "blank", v |-> 0]

TextMoney == [t |-> "text", v |-> 0]

DateText(y, m, d) == [t |-> "text", v |-> <<y, m, d>>]

BlankDate == [t |-> "blank", v |-> <<0, 0, 0>>]

NaT == [t |-> "nat", v |-> <<0, 0, 0>>]

Timestamp(ymd) == [t |-> "ts", v |-> ymd]

-----------------------------------------------------------------------------
(* Floats produced by a division *)

Abs(x) == IF x < 0 THEN -x ELSE x

RECURSIVE GCD(_, _)
GCD(a, b) == IF b = 0 THEN a ELSE GCD(b, a % b)

\* The fraction n/d (d # 0), reduced, with a positive denominator.
Frac(n, d) ==
    LET g == GCD(Abs(n), Abs(d))
        s == IF d < 0 THEN -1 ELSE 1
    IN [kind |-> "num", num |-> (s * n) \div g, den |-> (s * d) \div g]

FNaN == [kind |-> "nan", num |-> 0, den |-> 1]

FInf == [kind |-> "inf", num |-> 0, den |-> 1]

FNegInf == [kind |-> "-inf", num |-> 0, den |-> 1]

FZero == Frac(0, 1)

\* a / b as numpy divides floats: a zero divisor gives nan, inf or -inf.
FloatDiv(a, b) ==
    IF b # 0 THEN Frac(a, b)
    ELSE IF a = 0 THEN FNaN
    ELSE IF a > 0 THEN FInf ELSE FNegInf

\* x * k for a float x and an integer k > 0.
FloatTimes(x, k) == IF x.kind = "num" THEN Frac(x.num * k, x.den) ELSE x

\* The integer nearest to n/d (d > 0), ties to the even one.
RoundHalfEven(n, d) ==
    LET q == n \div d
        r == n % d
    IN IF 2 * r < d THEN q
       ELSE IF 2 * r > d THEN q + 1
       ELSE IF q % 2 = 0 THEN q ELSE q + 1

\* Series.round(2): nan and the infinities are kept.
Round2(x) ==
    IF x.kind = "num" THEN Frac(RoundHalfEven(x.num * 100, x.den), 100) ELSE x

\* x + y for floats; a nan or an infinity on either side is not summed here.
FloatAdd(x, y) ==
    IF x.kind = "num" /\ y.kind = "num"
    THEN Frac(x.num * y.den + y.num * x.den, x.den * y.den)
    ELSE FNaN

RECURSIVE FloatSum(_)
\* The sum of a sequence of floats.
FloatSum(s) == IF s = <<>> THEN FZero ELSE FloatAdd(Head(s), FloatSum(Tail(s)))

\* x <= y for two finite floats.
FloatLeq(x, y) == x.num * y.den <= y.num * x.den

-----------------------------------------------------------------------------
(* Dates *)

IsLeap(y) == (y % 4 = 0 /\ y % 100 # 0) \/ y % 400 = 0

DaysInMonth(y, m) ==
    IF m = 2 THEN (IF IsLeap(y) THEN 29 ELSE 28)
    ELSE IF m \in {4, 6, 9, 11} THEN 30 ELSE 31

ValidDate(ymd) ==
    /\ ymd[1] \in 1678..2261
    /\ ymd[2] \in 1..12
    /\ ymd[3] \in 1..DaysInMonth(ymd[1], ymd[2])

\* pd.to_datetime accepts the cell: an empty cell becomes NaT without an
\* error, a text that is no calendar date raises.
CanParse(cell) == cell.t \in {"blank", "nat", "ts"} \/ ValidDate(cell.v)

to_datetime(cell) ==
    IF cell.t \in {"blank", "nat"} THEN NaT ELSE Timestamp(cell.v)

MonthAbbr ==
    <<"Jan", "Feb", "Mar", "Apr", "May", "Jun",
      "Jul", "Aug", "Sep", "Oct", "Nov", "Dec">>

\* .dt.to_period('M'): the month's ordinal (months since 1970-01); NaT stays NaT.
to_period(cell) ==
    IF cell.t = "ts"
    THEN [t |-> "period", v |-> (cell.v[1] - 1970) * 12 + (cell.v[2] - 1)]
    ELSE [t |-> "nat", v |-> 0]

\* .dt.strftime('%b %Y'): NaT gives NaN.
strftime_bY(cell) ==
    IF cell.t = "ts"
    THEN [t |-> "str", v |-> <<MonthAbbr[cell.v[2]], cell.v[1]>>]
    ELSE [t |-> "nan", v |-> <<"", 0>>]

-----------------------------------------------------------------------------
(* Frames: [columns |-> set of names, rows |-> sequence of rows], a row    *)
(* being a function from the frame's columns to cells.                     *)

\* df[col] = values, one value per row (a new or replaced column).
SetColumn(frame, col, values) ==
    [columns |-> frame.columns \cup {col},
     rows |-> [i \in DOMAIN frame.rows |->
                 [c \in frame.columns \cup {col} |->
                    IF c = col THEN values[i] ELSE frame.rows[i][c]]]]

\* The index of the frame.
Rows(frame) == DOMAIN frame.rows

\* pd.read_excel: the sheet as a frame.
read_excel(file) == [columns |-> file.columns, rows |-> file.rows]

-----------------------------------------------------------------------------
(* load_and_process_data, block by block *)

\* Every ORD DT cell is accepted by pd.to_datetime.
DatesParse(frame) ==
    \A i \in DOMAIN frame.rows : CanParse(frame.rows[i]["ORD DT"])

ParseDateColumn(frame) ==
    SetColumn(frame, "ORD DT",
              [i \in Rows(frame) |-> to_datetime(frame.rows[i]["ORD DT"])])

fillna(cell) == IF cell.t = "blank" THEN Num(0) ELSE cell

\* The loop's turn without its else branch: an absent column stays absent.
FillCostColumnIfPresent(frame, col) ==
    IF col \in frame.columns
    THEN SetColumn(frame, col, [i \in Rows(frame) |-> fillna(frame.rows[i][col])])
    ELSE frame

\* One turn of the loop over cost_columns.
FillCostColumn(frame, col) ==
    IF col \in frame.columns
    THEN SetColumn(frame, col, [i \in Rows(frame) |-> fillna(frame.rows[i][col])])
    ELSE SetColumn(frame, col, [i \in Rows(frame) |-> Num(0)])

RECURSIVE FillCostsFrom(_, _)
FillCostsFrom(frame, k) ==
    IF k > Len(cost_columns) THEN frame
    ELSE FillCostsFrom(FillCostColumn(frame, cost_columns[k]), k + 1)

FillCostColumns(frame) == FillCostsFrom(frame, 1)

FillNetColumn(frame) ==
    SetColumn(frame, "NET", [i \in Rows(frame) |-> fillna(frame.rows[i]["NET"])])

\* The arithmetic of the derived columns raises TypeError when a cost or NET
\* cell holds a string (fillna leaves strings in place).
MoneyIsNumeric(frame) ==
    \A i \in DOMAIN frame.rows :
        \A c \in CostColumnSet \cup {"NET"} : frame.rows[i][c].t = "num"

RECURSIVE SumCells(_, _, _)
SumCells(r, cols, k) ==
    IF k > Len(cols) THEN 0 ELSE r[cols[k]].v + SumCells(r, cols, k + 1)

\* The row sum with the last cost column left out of the list.
RowTotalCostsShort(r) ==
    SumCells(r, SubSeq(cost_columns, 1, Len(cost_columns) - 1), 1)

\* df[cost_columns].sum(axis=1), for one row.
RowTotalCosts(r) == SumCells(r, cost_columns, 1)

\* df['NET'] - df['TOTAL_COSTS'], for one row.
RowProfit(r) == r["NET"].v - r["TOTAL_COSTS"]

\* TOTAL_COSTS, PROFIT, YEAR_MONTH and MONTH_YEAR_STR.  (YEAR, MONTH and
\* MONTH_NAME are derived from ORD DT the same way and read by no aggregate.)
DeriveColumns(frame) ==
    LET f1 == SetColumn(frame, "TOTAL_COSTS",
                        [i \in Rows(frame) |-> RowTotalCosts(frame.rows[i])])
        f2 == SetColumn(f1, "PROFIT", [i \in Rows(f1) |-> RowProfit(f1.rows[i])])
        f3 == SetColumn(f2, "YEAR_MONTH",
                        [i \in Rows(f2) |-> to_period(f2.rows[i]["ORD DT"])])
    IN SetColumn(f3, "MONTH_YEAR_STR",
                 [i \in Rows(f3) |-> strftime_bY(f3.rows[i]["ORD DT"])])

\* st.error("Required column '<col>' not found in the uploaded file.")
ColumnNotFound(col) ==
    [msg |-> "Required column not found", column |-> col, exception |-> ""]

\* st.error(f"Error processing file: {str(e)}")
ProcessingError(exc) ==
    [msg |-> "Error processing file", column |-> "", exception |-> exc]

-----------------------------------------------------------------------------
(* Aggregation helpers *)

RECURSIVE SumFcn(_)
\* The sum of the values of a function with a finite domain.
SumFcn(f) ==
    IF DOMAIN f = {} THEN 0
    ELSE LET i == CHOOSE j \in DOMAIN f : TRUE
         IN f[i] + SumFcn([j \in DOMAIN f \ {i} |-> f[j]])

\* Series.sum() of a numeric column of cells.
ColumnSum(frame, col) == SumFcn([i \in Rows(frame) |-> frame.rows[i][col].v])

RECURSIVE Ascending(_)
\* A finite set of integers as an ascending sequence.
Ascending(S) ==
    IF S = {} THEN <<>>
    ELSE LET m == CHOOSE x \in S : \A y \in S : x <= y
         IN <<m>> \o Ascending(S \ {m})

RECURSIVE InsertByKey(_, _)
\* The pair x = <<key, element>> put into s, sorted by key, after every pair
\* whose key is not greater.
InsertByKey(s, x) ==
    IF s = <<>> THEN <<x>>
    ELSE IF x[1] < Head(s)[1] THEN <<x>> \o s
    ELSE <<Head(s)>> \o InsertByKey(Tail(s), x)

RECURSIVE SortPairs(_)
SortPairs(s) ==
    IF s = <<>> THEN <<>>
    ELSE InsertByKey(SortPairs(SubSeq(s, 1, Len(s) - 1)), s[Len(s)])

\* A stable sort of s by ascending key, keys[k] being the key of s[k].
StableSort(s, keys) ==
    LET sorted == SortPairs([k \in DOMAIN s |-> <<keys[k], s[k]>>])
    IN [k \in DOMAIN s |-> sorted[k][2]]

-----------------------------------------------------------------------------
(* calculate_margin *)

\* calculate_margin without its guard against a revenue of 0.
calculate_margin_unguarded(profit, revenue) ==
    FloatTimes(FloatDiv(profit, revenue), 100)

calculate_margin(profit, revenue) ==
    IF revenue = 0 THEN FZero
    ELSE FloatTimes(FloatDiv(profit, revenue), 100)

-----------------------------------------------------------------------------
(* create_monthly_summary *)

\* groupby(['YEAR_MONTH', 'MONTH_YEAR_STR']) keeps no row whose key is NaT or NaN.
GroupedRows(frame) ==
    {i \in Rows(frame) :
        /\ frame.rows[i]["YEAR_MONTH"].t = "period"
        /\ frame.rows[i]["MONTH_YEAR_STR"].t = "str"}

GroupOf(frame, p) ==
    {i \in GroupedRows(frame) : frame.rows[i]["YEAR_MONTH"].v = p}

\* One group's row after .agg(...), reset_index() and the renaming of columns.
AggregateGroup(frame, p) ==
    LET g == GroupOf(frame, p)
        first == frame.rows[CHOOSE i \in g : TRUE]
    IN [Period |-> first["YEAR_MONTH"],
        Month |-> first["MONTH_YEAR_STR"],
        Revenue |-> SumFcn([i \in g |-> frame.rows[i]["NET"].v]),
        Total_Costs |-> SumFcn([i \in g |-> frame.rows[i]["TOTAL_COSTS"]]),
        Profit |-> SumFcn([i \in g |-> frame.rows[i]["PROFIT"]]),
        Pickup_Cost |-> SumFcn([i \in g |-> frame.rows[i]["PU COST"].v]),
        Shipping_Cost |-> SumFcn([i \in g |-> frame.rows[i]["SHIP COST"].v]),
        Management_Cost |-> SumFcn([i \in g |-> frame.rows[i]["MAN COST"].v]),
        Delivery_Cost |-> SumFcn([i \in g |-> frame.rows[i]["DEL COST"].v]),
        Orders |-> Cardinality(g)]

\* The groups, in the order of their keys (groupby sorts the group keys).
GroupByAgg(frame) ==
    LET keys == Ascending({frame.rows[i]["YEAR_MONTH"].v : i \in GroupedRows(frame)})
    IN [k \in DOMAIN keys |-> AggregateGroup(frame, keys[k])]

\* monthly['Margin %'] = monthly.apply(lambda row: calculate_margin(...), axis=1)
WithMargin(m) ==
    [Period |-> m.Period, Month |-> m.Month, Revenue |-> m.Revenue,
     Total_Costs |-> m.Total_Costs, Profit |-> m.Profit,
     Pickup_Cost |-> m.Pickup_Cost, Shipping_Cost |-> m.Shipping_Cost,
     Management_Cost |-> m.Management_Cost, Delivery_Cost |-> m.Delivery_Cost,
     Orders |-> m.Orders, Margin_pct |-> calculate_margin(m.Profit, m.Revenue)]

\* sort_values('Period', ascending=False), as the cost breakdown is sorted.
SortByPeriodDescending(monthly) ==
    StableSort(monthly, [k \in DOMAIN monthly |-> -monthly[k].Period.v])

\* monthly.sort_values('Period')
SortByPeriod(monthly) ==
    StableSort(monthly, [k \in DOMAIN monthly |-> monthly[k].Period.v])

\* The margin of one order, as calculate_margin gives it.
RowMargin(r) == calculate_margin(r["PROFIT"], r["NET"].v)

\* The mean of the margins of the orders of a group.
MeanRowMargin(frame, g) ==
    LET idx == Ascending(g)
        total == FloatSum([k \in DOMAIN idx |-> RowMargin(frame.rows[idx[k]])])
    IN Frac(total.num, total.den * Cardinality(g))

\* The summary with 'Margin %' aggregated as the mean of a per-order margin.
create_monthly_summary_mean_margin(frame) ==
    LET grouped == GroupByAgg(frame)
    IN SortByPeriod(
         [k \in DOMAIN grouped |->
            [WithMargin(grouped[k]) EXCEPT
               !.Margin_pct = MeanRowMargin(frame, GroupOf(frame, grouped[k].Period.v))]])

create_monthly_summary(frame) ==
    LET grouped == GroupByAgg(frame)
    IN SortByPeriod([k \in DOMAIN grouped |-> WithMargin(grouped[k])])

-----------------------------------------------------------------------------
(* create_cost_breakdown *)

CostTypes == <<"Pickup Cost", "Shipping Cost", "Management Cost", "Delivery Cost">>

\* cost_data: the four column sums, in the order of the cost types.
CostAmounts(frame) ==
    <<ColumnSum(frame, "PU COST"), ColumnSum(frame, "SHIP COST"),
      ColumnSum(frame, "MAN COST"), ColumnSum(frame, "DEL COST")>>

RECURSIVE SumSeq(_)
SumSeq(s) == IF s = <<>> THEN 0 ELSE Head(s) + SumSeq(Tail(s))

\* The share rounded to a whole percent: .round() for .round(2).
PercentageWhole(amount, total) ==
    LET x == FloatTimes(FloatDiv(amount, total), 100)
    IN IF x.kind = "num" THEN Frac(RoundHalfEven(x.num, x.den), 1) ELSE x

\* (cost_df['Amount'] / total * 100).round(2), for one amount.
Percentage(amount, total) == Round2(FloatTimes(FloatDiv(amount, total), 100))

\* cost_df.sort_values('Amount', ascending=False)
SortByAmountDesc(cost) == StableSort(cost, [k \in DOMAIN cost |-> -cost[k].Amount])

create_cost_breakdown(frame) ==
    LET amounts == CostAmounts(frame)
        total == SumSeq(amounts)
    IN SortByAmountDesc(
         [k \in DOMAIN CostTypes |->
            [Cost_Type |-> CostTypes[k], Amount |-> amounts[k],
             Percentage |-> Percentage(amounts[k], total)]])

-----------------------------------------------------------------------------
(* The annual totals of main *)

AnnualTotals(frame) ==
    LET total_revenue == ColumnSum(frame, "NET")
        total_costs == SumFcn([i \in Rows(frame) |-> frame.rows[i]["TOTAL_COSTS"]])
        total_profit == SumFcn([i \in Rows(frame) |-> frame.rows[i]["PROFIT"]])
    IN [total_revenue |-> total_revenue,
        total_costs |-> total_costs,
        total_profit |-> total_profit,
        overall_margin |-> calculate_margin(total_profit, total_revenue),
        total_orders |-> Len(frame.rows)]

-----------------------------------------------------------------------------
(* The raw data tab of main *)

\* df['ORD DT'].min() is a date: some row has one (min skips NaT).
HasDate(frame) == \E i \in Rows(frame) : frame.rows[i]["ORD DT"].t = "ts"

\* A Timestamp's place in time, for comparing dates.
DateKey(cell) == (cell.v[1] * 12 + cell.v[2]) * 31 + cell.v[3]

raw_cols ==
    {"ORD DT", "ACCT NM", "ORD#", "PU COST", "SHIP COST", "MAN COST",
     "DEL COST", "TOTAL_COSTS", "NET", "PROFIT", "STATUS", "PU CTRY"}

\* df[available_cols]
SelectColumns(frame, cols) ==
    [columns |-> frame.columns \cap cols,
     rows |-> [i \in Rows(frame) |->
                 [c \in frame.columns \cap cols |-> frame.rows[i][c]]]]

\* The rows of s that satisfy (keep = TRUE) or do not satisfy having a date.
DatedRows(s, keep) ==
    SelectSeq(s, LAMBDA r : (r["ORD DT"].t = "ts") = keep)

\* sort_values('ORD DT', ascending=False): latest first, NaT rows last.
SortByDateDesc(frame) ==
    LET dated == DatedRows(frame.rows, TRUE)
    IN [frame EXCEPT !.rows =
          StableSort(dated, [k \in DOMAIN dated |-> -DateKey(dated[k]["ORD DT"])])
              \o DatedRows(frame.rows, FALSE)]

\* The table shown by st.dataframe in the raw data tab.
RawDataView(frame) == SortByDateDesc(SelectColumns(frame, raw_cols))

\* df.to_csv(index=False): the header and one line per row, in the frame's order.
to_csv(frame) == [header |-> frame.columns, lines |-> frame.rows]

-----------------------------------------------------------------------------
(* The sheets a user may upload *)

\* The money cells of one order: NET and the four costs.
Order(net, pu, ship, man, del) ==
    [c \in CostColumnSet \cup {"NET"} |->
        CASE c = "NET" -> net
          [] c = "PU COST" -> pu
          [] c = "SHIP COST" -> ship
          [] c = "MAN COST" -> man
          [] c = "DEL COST" -> del]

Orders ==
    { Order(Num(20), Num(2), Num(1), Num(0), Num(1)),        \* a plain order
      Order(Num(10), Num(0), Num(0), Num(0), Num(0)),        \* no costs
      Order(Num(0), Num(1), BlankMoney, BlankMoney, BlankMoney), \* no revenue, empty cells
      Order(BlankMoney, Num(0), Num(0), Num(1), Num(-1)),     \* costs cancelling out
      Order(Num(-20), Num(0), Num(0), Num(3), Num(4)),        \* a credit note
      Order(TextMoney, Num(1), Num(0), Num(0), Num(0)),       \* non-numeric revenue
      Order(Num(10), Num(1), TextMoney, Num(0), Num(0)) }     \* non-numeric cost

January == DateText(2024, 1, 15)

February == DateText(2024, 2, 10)

\* No calendar date: pd.to_datetime raises on it.
NoSuchDay == DateText(2024, 2, 30)

PlainOrders ==
    { Order(Num(20), Num(2), Num(1), Num(0), Num(1)),
      Order(Num(10), Num(0), Num(0), Num(0), Num(0)) }

\* <<ORD DT cell, money cells>>: every order on a January and on a February
\* day; the plain ones also with an empty date and with an impossible date.
SheetRows ==
    ({January, February} \X Orders) \cup ({BlankDate, NoSuchDay} \X PlainOrders)

\* The columns a sheet may have: with or without each mandatory column; with
\* all four cost columns, with none, or without MAN COST.
ColumnSets ==
    {cs \in SUBSET SheetColumns :
        cs \cap CostColumnSet \in
            {CostColumnSet, {}, CostColumnSet \ {"MAN COST"}}}

RowsOver(cs) ==
    {[c \in cs |-> IF c = "ORD DT" THEN sr[1] ELSE sr[2][c]] : sr \in SheetRows}

SeqsUpTo(S, n) == UNION {[1..k -> S] : k \in 0..n}

Files ==
    UNION {{[columns |-> cs, rows |-> rs] : rs \in SeqsUpTo(RowsOver(cs), MaxRows)} :
             cs \in ColumnSets}

-----------------------------------------------------------------------------
(* The program: one run of main per upload *)

Init ==
    /\ uploaded_file = None
    /\ pc = "idle"
    /\ df = None
    /\ error = None
    /\ monthly_df = <<>>
    /\ cost_df = <<>>
    /\ totals = None
    /\ raw_view = None
    /\ csv_raw = None
    /\ had_upload = FALSE

\* st.file_uploader returns a file: the script runs from the top.
Upload ==
    /\ pc = "idle"
    /\ \E f \in Files : uploaded_file' = Some(f)
    /\ pc' = "parse_dates"
    /\ UNCHANGED <<df, error, monthly_df, cost_df, totals, raw_view, csv_raw,
                   had_upload>>

\* load_and_process_data reports an error and returns None.
Fail(err) ==
    /\ error' = Some(err)
    /\ df' = None
    /\ pc' = "failed"
    /\ UNCHANGED <<uploaded_file, monthly_df, cost_df, totals, raw_view, csv_raw,
                   had_upload>>

Continue(frame, next) ==
    /\ df' = Some(frame)
    /\ pc' = next
    /\ UNCHANGED <<uploaded_file, error, monthly_df, cost_df, totals, raw_view,
                   csv_raw, had_upload>>

\* read_excel, then "Ensure date column exists and is datetime".
ParseDates ==
    /\ pc = "parse_dates"
    /\ LET raw == read_excel(uploaded_file[1])
       IN IF "ORD DT" \notin raw.columns THEN Fail(ColumnNotFound("ORD DT"))
          ELSE IF ~DatesParse(raw) THEN Fail(ProcessingError("DateParseError"))
          ELSE Continue(ParseDateColumn(raw), "fill_costs")

\* "Fill NaN values with 0 for cost columns".
FillCosts ==
    /\ pc = "fill_costs"
    /\ Continue(FillCostColumns(df[1]), "fill_net")

\* "Fill NaN values for NET (revenue)".
FillNet ==
    /\ pc = "fill_net"
    /\ IF "NET" \notin df[1].columns THEN Fail(ColumnNotFound("NET"))
       ELSE Continue(FillNetColumn(df[1]), "derive")

\* Total costs, profit, month and year; return df.
Derive ==
    /\ pc = "derive"
    /\ IF ~(CostColumnSet \subseteq df[1].columns)
       THEN Fail(ProcessingError("KeyError"))      \* df[cost_columns]
       ELSE IF ~MoneyIsNumeric(df[1]) THEN Fail(ProcessingError("TypeError"))
       ELSE Continue(DeriveColumns(df[1]), "monthly")

\* monthly_df = create_monthly_summary(df)
MonthlySummary ==
    /\ pc = "monthly"
    /\ monthly_df' = create_monthly_summary(df[1])
    /\ pc' = "cost"
    /\ UNCHANGED <<uploaded_file, df, error, cost_df, totals, raw_view, csv_raw,
                   had_upload>>

\* cost_df = create_cost_breakdown(df)
CostBreakdown ==
    /\ pc = "cost"
    /\ cost_df' = create_cost_breakdown(df[1])
    /\ pc' = "totals"
    /\ UNCHANGED <<uploaded_file, df, error, monthly_df, totals, raw_view,
                   csv_raw, had_upload>>

\* "Calculate annual totals".
Totals ==
    /\ pc = "totals"
    /\ totals' = Some(AnnualTotals(df[1]))
    /\ pc' = "render"
    /\ UNCHANGED <<uploaded_file, df, error, monthly_df, cost_df, raw_view,
                   csv_raw, had_upload>>

\* The date range, the metrics, the charts and the tables of the page, up to
\* the download of the full data.  NaT.strftime raises ValueError, so a frame
\* without any date ends the run at the date range.  (The monthly download is
\* monthly_df as it stands.)
Render ==
    /\ pc = "render"
    /\ IF ~HasDate(df[1])
       THEN /\ pc' = "crashed"
            /\ UNCHANGED <<raw_view, csv_raw>>
       ELSE /\ raw_view' = Some(RawDataView(df[1]))
            /\ csv_raw' = Some(to_csv(df[1]))
            /\ pc' = "done"
    /\ UNCHANGED <<uploaded_file, df, error, monthly_df, cost_df, totals,
                   had_upload>>

\* The file removed with the aggregates of its run kept, as they would be
\* in st.session_state or under a cache keyed on nothing.
ClearKeepingAggregates ==
    /\ pc \in {"done", "failed", "crashed"}
    /\ uploaded_file' = None
    /\ pc' = "idle"
    /\ df' = None
    /\ error' = None
    /\ had_upload' = TRUE
    /\ UNCHANGED <<monthly_df, cost_df, totals, raw_view, csv_raw>>

\* The user removes the file: the next run of the script holds nothing of
\* this one (every variable of main is a local of the run).  had_upload
\* records that an earlier upload has been processed.
Clear ==
    /\ pc \in {"done", "failed", "crashed"}
    /\ uploaded_file' = None
    /\ pc' = "idle"
    /\ df' = None
    /\ error' = None
    /\ monthly_df' = <<>>
    /\ cost_df' = <<>>
    /\ totals' = None
    /\ raw_view' = None
    /\ csv_raw' = None
    /\ had_upload' = TRUE

Next ==
    \/ Upload
    \/ ParseDates
    \/ FillCosts
    \/ FillNet
    \/ Derive
    \/ MonthlySummary
    \/ CostBreakdown
    \/ Totals
    \/ Render
    \/ Clear

Spec == Init /\ [][Next]_vars

-----------------------------------------------------------------------------
(* Vocabulary of the properties *)

Uploaded == uploaded_file # None

Sheet == uploaded_file[1]

\* load_and_process_data has returned a frame.
Accepted == pc \in {"monthly", "cost", "totals", "render", "done", "crashed"}

MonthlyReady == pc \in {"cost", "totals", "render", "done", "crashed"}

CostReady == pc \in {"totals", "render", "done", "crashed"}

\* The annual totals have been computed.
TotalsReady == pc \in {"render", "done", "crashed"}

MissingMandatory(file) == {"ORD DT", "NET"} \ file.columns

\* The ORD DT cell holds a calendar date.
IsCalendarDate(cell) == cell.t = "text" /\ ValidDate(cell.v)

MonthlyProfits == [k \in DOMAIN monthly_df |-> monthly_df[k].Profit]

CostAmountsReported == [k \in DOMAIN cost_df |-> cost_df[k].Amount]

NoAggregate == monthly_df = <<>> /\ cost_df = <<>> /\ totals = None

\* The frame load_and_process_data returns for a sheet it accepts.
Loaded(file) ==
    DeriveColumns(FillNetColumn(FillCostColumns(ParseDateColumn(read_excel(file)))))

\* The sheets load_and_process_data returns a frame for: both mandatory
\* columns, no date text that is no date, no text in a money cell.
Accepts(file) ==
    /\ MissingMandatory(file) = {}
    /\ DatesParse(read_excel(file))
    /\ \A i \in DOMAIN file.rows :
          \A c \in file.columns \ {"ORD DT"} : file.rows[i][c].t # "text"

-----------------------------------------------------------------------------
(* C1 *)

\* C1: for every accepted dataset the Profit values of the monthly summary
\* add up to total_profit, the sum of PROFIT over all loaded rows.
C1_MonthlyProfitIsTotalProfit ==
    TotalsReady => SumFcn(MonthlyProfits) = totals[1].total_profit

-----------------------------------------------------------------------------
(* C2 *)

SomeDateIsNoDate(file) ==
    /\ "ORD DT" \in file.columns
    /\ \E i \in DOMAIN file.rows : ~IsCalendarDate(file.rows[i]["ORD DT"])

\* C2: when the order date of some row is no valid calendar date the run
\* fails as a whole: once the date column has been handled the load has
\* ended with an error and no dataset, and nothing is aggregated.
C2_BadDateFailsRun ==
    (Uploaded /\ SomeDateIsNoDate(Sheet) /\ pc # "parse_dates")
        => (pc = "failed" /\ df = None /\ error # None /\ NoAggregate)

-----------------------------------------------------------------------------
(* C3 *)

\* C3: when the four amounts of the cost breakdown add up to 0, every
\* Percentage it reports is exactly 0 (no NaN, no infinity).
C3_ZeroTotalGivesZeroPercentages ==
    (CostReady /\ SumFcn(CostAmountsReported) = 0)
        => \A k \in DOMAIN cost_df : cost_df[k].Percentage = FZero

-----------------------------------------------------------------------------
(* C4 *)

\* C4: a margin computed over a revenue sum of 0 is exactly 0, for every
\* period of the monthly summary and for the overall margin of main.
C4_ZeroRevenueGivesZeroMargin ==
    /\ MonthlyReady =>
         \A k \in DOMAIN monthly_df :
            monthly_df[k].Revenue = 0 => monthly_df[k].Margin_pct = FZero
    /\ TotalsReady =>
         (totals[1].total_revenue = 0 => totals[1].overall_margin = FZero)

\* A run with a period of revenue 0 and profit # 0, and with a total revenue
\* of 0 and a total profit # 0.
C4_Witness ==
    /\ pc = "done"
    /\ \E k \in DOMAIN monthly_df :
          monthly_df[k].Revenue = 0 /\ monthly_df[k].Profit # 0
    /\ totals[1].total_revenue = 0
    /\ totals[1].total_profit # 0

-----------------------------------------------------------------------------
(* C5 *)

\* C5: when a mandatory column (ORD DT, NET) is absent the load fails with
\* the error that names a missing mandatory column, returns no dataset, and
\* nothing is aggregated.
C5_MissingColumnIsSchemaError ==
    (Uploaded /\ MissingMandatory(Sheet) # {})
        => /\ ~Accepted
           /\ NoAggregate
           /\ pc = "failed" =>
                /\ df = None
                /\ error # None
                /\ error[1].msg = "Required column not found"
                /\ error[1].column \in MissingMandatory(Sheet)

-----------------------------------------------------------------------------
(* C6 *)

\* C6: a missing mandatory column is decided before any row is processed:
\* the frame, while the load holds one, is still the sheet as read (no date
\* parsed, no value filled), and the load ends with the missing-column error,
\* also when a date of the sheet cannot be parsed.
C6_SchemaErrorBeforeRowProcessing ==
    (Uploaded /\ MissingMandatory(Sheet) # {})
        => /\ df # None => df[1] = read_excel(Sheet)
           /\ pc = "failed" =>
                (error # None /\ error[1].msg = "Required column not found")

-----------------------------------------------------------------------------
(* C7 *)

IsZeroed(cell) == cell.t \in {"blank", "text"}

SomeMoneyCellZeroed(file) ==
    \E i \in DOMAIN file.rows :
        \E c \in file.columns \ {"ORD DT"} : IsZeroed(file.rows[i][c])

\* The value the claim gives a money cell of the sheet: 0 when it is absent,
\* empty or non-numeric.
ValueOrZero(file, i, c) ==
    IF c \in file.columns /\ ~IsZeroed(file.rows[i][c])
    THEN file.rows[i][c].v ELSE 0

CostsOrZero(file, i) ==
    SumFcn([k \in DOMAIN cost_columns |-> ValueOrZero(file, i, cost_columns[k])])

\* C7: a sheet with an empty or non-numeric cost or revenue cell (its
\* mandatory columns present, its dates accepted) is not rejected, and the
\* TOTAL_COSTS and PROFIT of every row are those of the sheet with 0 in
\* those cells.
C7_BadMoneyCellCountsAsZero ==
    (/\ Uploaded
     /\ MissingMandatory(Sheet) = {}
     /\ DatesParse(read_excel(Sheet))
     /\ SomeMoneyCellZeroed(Sheet))
        => /\ pc # "failed"
           /\ Accepted =>
                \A i \in DOMAIN df[1].rows :
                    /\ df[1].rows[i]["TOTAL_COSTS"] = CostsOrZero(Sheet, i)
                    /\ df[1].rows[i]["PROFIT"] =
                         ValueOrZero(Sheet, i, "NET") - CostsOrZero(Sheet, i)

-----------------------------------------------------------------------------
(* C8 *)

\* C8: for every accepted dataset the four Amount values of the cost
\* breakdown add up to total_costs, the sum of TOTAL_COSTS over all rows.
C8_CostAmountsAreTotalCosts ==
    TotalsReady => SumFcn(CostAmountsReported) = totals[1].total_costs

\* A run in which every cost category has a non-zero amount.
C8_Witness ==
    /\ pc = "done"
    /\ Len(cost_df) = Len(cost_columns)
    /\ \A k \in DOMAIN cost_df : cost_df[k].Amount # 0

-----------------------------------------------------------------------------
(* C9 *)

PeriodsOf(monthly) == [k \in DOMAIN monthly |-> monthly[k].Period.v]

RowOrders(n) ==
    {p \in [1..n -> 1..n] : \A i, j \in 1..n : p[i] = p[j] => i = j}

PermuteRows(file, p) ==
    [file EXCEPT !.rows = [i \in DOMAIN file.rows |-> file.rows[p[i]]]]

\* C9: the periods of the monthly summary are strictly ascending, and the
\* summary of the same sheet with its rows in any other order has the same
\* sequence of periods.
C9_PeriodsChronological ==
    MonthlyReady =>
        /\ \A j, k \in DOMAIN monthly_df :
              j < k => monthly_df[j].Period.v < monthly_df[k].Period.v
        /\ \A p \in RowOrders(Len(Sheet.rows)) :
              PeriodsOf(create_monthly_summary(Loaded(PermuteRows(Sheet, p))))
                  = PeriodsOf(monthly_df)

\* A sheet whose February order stands before its January order.
C9_Witness ==
    /\ pc = "done"
    /\ Len(monthly_df) = 2
    /\ Sheet.rows[1]["ORD DT"] = February
    /\ Sheet.rows[2]["ORD DT"] = January

-----------------------------------------------------------------------------
(* C10 *)

NoCostColumns(file) == file.columns \cap CostColumnSet = {}

-----------------------------------------------------------------------------
(* C11 *)

GroupProfit(frame, p) ==
    SumFcn([i \in GroupOf(frame, p) |-> frame.rows[i]["PROFIT"]])

GroupRevenue(frame, p) ==
    SumFcn([i \in GroupOf(frame, p) |-> frame.rows[i]["NET"].v])

\* C11: the Margin % of every period with a revenue is the period's summed
\* profit over its summed revenue, times 100 (summed over the orders of the
\* period in the loaded frame), not the mean of the orders' margins.
C11_MarginFromSums ==
    MonthlyReady =>
        \A k \in DOMAIN monthly_df :
            LET p == monthly_df[k].Period.v
            IN GroupRevenue(df[1], p) # 0 =>
                 monthly_df[k].Margin_pct =
                     Frac(100 * GroupProfit(df[1], p), GroupRevenue(df[1], p))

\* A period of two orders whose margin of sums is not the mean of margins.
C11_Witness ==
    /\ pc = "done"
    /\ \E k \in DOMAIN monthly_df :
          /\ monthly_df[k].Orders = 2
          /\ monthly_df[k].Revenue # 0
          /\ monthly_df[k].Margin_pct #
                MeanRowMargin(df[1], GroupOf(df[1], monthly_df[k].Period.v))

-----------------------------------------------------------------------------
(* C12 *)

PercentagesReported == [k \in DOMAIN cost_df |-> cost_df[k].Percentage]

Hundred == Frac(100, 1)

\* The distance of the sum of the reported percentages from 100 is at most
\* hundredths/100.
PercentagesWithin(hundredths) ==
    LET total == FloatSum(PercentagesReported)
    IN /\ total.kind = "num"
       /\ FloatLeq(Frac(10000 - hundredths, 100), total)
       /\ FloatLeq(total, Frac(10000 + hundredths, 100))

\* C12 as claimed: when the total cost is greater than 0 the four reported
\* percentages add up to 100 (money being exact here, the floating-point
\* tolerance of the claim is no distance at all).
C12_PercentagesSumTo100 ==
    (CostReady /\ SumFcn(CostAmountsReported) > 0)
        => FloatSum(PercentagesReported) = Hundred

\* C12 as amended: each percentage being rounded to two decimals, the four
\* add up to 100 within 0.02.
C12_PercentagesSumTo100Rounded ==
    (CostReady /\ SumFcn(CostAmountsReported) > 0) => PercentagesWithin(2)

\* A breakdown with a positive total whose rounded percentages miss 100.
C12_Witness ==
    /\ pc = "done"
    /\ SumFcn(CostAmountsReported) > 0
    /\ FloatSum(PercentagesReported) # Hundred

-----------------------------------------------------------------------------
(* C13 *)

\* The lines are in descending order of their order dates.
DescendingByDate(lines) ==
    \A j, k \in DOMAIN lines :
        (j < k /\ lines[j]["ORD DT"].t = "ts" /\ lines[k]["ORD DT"].t = "ts")
            => DateKey(lines[j]["ORD DT"]) >= DateKey(lines[k]["ORD DT"])

\* C13: the full dataset offered for download (profitability_data.csv) has
\* its rows in descending order of the order date.
C13_ExportSortedByDateDesc ==
    pc = "done" => DescendingByDate(csv_raw[1].lines)

-----------------------------------------------------------------------------
(* C14 *)

\* C14: what a run reports is decided by its own sheet, whatever was
\* uploaded before: a run starts with nothing of an earlier run, and the
\* monthly summary, the cost breakdown and the totals are those of the
\* sheet loaded on its own.
C14_SummaryOfThisUploadOnly ==
    /\ pc \in {"idle", "parse_dates"} =>
         (df = None /\ error = None /\ NoAggregate
            /\ raw_view = None /\ csv_raw = None)
    /\ MonthlyReady => monthly_df = create_monthly_summary(Loaded(Sheet))
    /\ CostReady => cost_df = create_cost_breakdown(Loaded(Sheet))
    /\ TotalsReady => totals = Some(AnnualTotals(Loaded(Sheet)))

\* The run of a second upload has finished with a summary to report.
C14_Witness ==
    /\ had_upload
    /\ pc = "done"
    /\ Len(monthly_df) = 2
    /\ totals[1].total_orders = 2

-----------------------------------------------------------------------------
(* C15 *)

MonthlyOrders == [k \in DOMAIN monthly_df |-> monthly_df[k].Orders]

\* C15: every loaded row is counted in exactly one period: the Orders of the
\* monthly summary add up to total_orders.
C15_OrdersSumToTotalOrders ==
    TotalsReady => SumFcn(MonthlyOrders) = totals[1].total_orders

====
